---- MODULE Spec2Model ----
(***************************************************************************)
(* One invocation of either command-line script of the repository:         *)
(*   scripts/align.py              forced alignment through WhisperX       *)
(*   scripts/whisper_transcribe.py transcription through openai-whisper    *)
(* Each script is a straight-line main(); the model follows it statement   *)
(* by statement.  The wrapped libraries are opaque: every call into them   *)
(* either returns a value drawn from a bounded set or raises an exception. *)
(*                                                                         *)
(* Units: word timings and scores delivered by a library are integers in   *)
(* 1/10000 (so 12344 is 1.2344); a value rounded with round(x, 3) is an    *)
(* integer in 1/1000.                                                      *)
(***************************************************************************)
EXTENDS Integers, Sequences, FiniteSets, TLC

VARIABLES
    tool,          \* "align" or "transcribe": which script was started
    argv_ok,       \* the command line satisfies the script's argparse parser
    args,          \* the parsed arguments (language, device, compute_type)
    audio_exists,  \* os.path.exists(audio path)
    text_kind,     \* the text path: "missing", "file", or "unreadable"
    file_text,     \* the characters of the text file
    pc,            \* position in main()
    transcript,    \* align.py: transcript
    device,        \* align.py: device
    compute_type,  \* align.py: compute_type
    audio,         \* align.py: len(audio), -1 before load_audio returned
    result,        \* the library's result
    words,         \* the flattened word list
    calls,         \* every call into a library attempted so far, in order
    stdout,        \* what was printed to standard output
    stderr,        \* what was printed to standard error
    exit_code      \* the process exit code, -1 while the process runs

vars == <<tool, argv_ok, args, audio_exists, text_kind, file_text, pc,
          transcript, device, compute_type, audio, result, words, calls,
          stdout, stderr, exit_code>>

----------------------------------------------------------------------------
(* Bounds of the model *)

MaxSegs == 2      \* segments in a library result
MaxWords == 2     \* words in one segment

(* Program constants *)

SampleRate == 16000
PyNone == -1      \* Python's None where a number is expected

(* Inputs *)

Whitespace == {" ", "\t", "\n", "\r"}

FileTexts == { <<>>, <<" ", "\n">>, <<"a">>, <<" ", "a", " ", "b", "\n">> }

AlignArgs == [language : {"yi"}, device : {"auto", "cpu", "cuda"},
              compute_type : {"float16", "float32"}]

TranscribeArgs == [language : {"yi"}, device : {"cpu", "cuda"}, model : {"base"}]

AudioLens == {16000, 40011}

(* Exceptions a library call may raise; all are subclasses of Exception. *)
Excs == { [type |-> "ImportError", msg |-> "no module"],
          [type |-> "RuntimeError", msg |-> "failed"] }

(* Word records as WhisperX returns them: a word it could not align has    *)
(* neither timings nor score.                                              *)
AlignSrcWords == { [word |-> "a", start |-> 12344, end |-> 23456, score |-> 8766],
                   [word |-> "b"] }

(* Word records as whisper returns them, with or without a probability. *)
WhisperSrcWords == { [word |-> "a", start |-> 12344, end |-> 23456, probability |-> 8766],
                     [word |-> "b", start |-> 23456, end |-> 34567] }

WordLists(W) == UNION { [1..n -> W] : n \in 0..MaxWords }

SegmentsOver(W) == { [text |-> "s"] } \cup { [text |-> "s", words |-> ws] : ws \in WordLists(W) }

SegLists(W) == UNION { [1..n -> SegmentsOver(W)] : n \in 0..MaxSegs }

(* A library result: with a "segments" key, or without one. *)
ResultsOver(W) == { [language |-> "yi"] } \cup { [segments |-> sl] : sl \in SegLists(W) }

NoResult == [unset |-> TRUE]

----------------------------------------------------------------------------
(* Python helpers *)

Get(d, k, default) == IF k \in DOMAIN d THEN d[k] ELSE default

RECURSIVE LStrip(_)
LStrip(s) == IF s # <<>> /\ Head(s) \in Whitespace THEN LStrip(Tail(s)) ELSE s

RECURSIVE RStrip(_)
RStrip(s) ==
    IF s # <<>> /\ s[Len(s)] \in Whitespace THEN RStrip(SubSeq(s, 1, Len(s) - 1)) ELSE s

(* faulty variant: read() without strip() *)
Strip_Missing(s) == s

Strip(s) == RStrip(LStrip(s))

(* round(x, 3): x in 1/10000, the result in 1/1000, ties to the even digit *)
Round3(x) ==
    LET q == x \div 10
        r == x % 10
    IN  IF r < 5 THEN q ELSE IF r > 5 THEN q + 1 ELSE q + (q % 2)

(* len(audio) / 16000: the exact quotient, kept as a fraction *)
Seconds(n) == [num |-> n, den |-> SampleRate]

(* round(len(audio) / 16000, 3) in 1/1000 *)
Duration(n) ==
    LET q == (n * 1000) \div SampleRate
        r == (n * 1000) % SampleRate
    IN  IF 2 * r < SampleRate THEN q ELSE IF 2 * r > SampleRate THEN q + 1 ELSE q + (q % 2)

----------------------------------------------------------------------------
Init ==
    /\ tool \in {"align", "transcribe"}
    /\ argv_ok \in BOOLEAN
    /\ audio_exists \in BOOLEAN
    /\ IF tool = "align"
         THEN /\ args \in AlignArgs
              /\ text_kind \in {"missing", "file", "unreadable"}
              /\ file_text \in (IF text_kind = "file" THEN FileTexts ELSE {<<>>})
         ELSE /\ args \in TranscribeArgs
              /\ text_kind = "missing"
              /\ file_text = <<>>
    /\ pc = "parse"
    /\ transcript = <<>>
    /\ device = ""
    /\ compute_type = ""
    /\ audio = -1
    /\ result = NoResult
    /\ words = <<>>
    /\ calls = <<>>
    /\ stdout = <<>>
    /\ stderr = <<>>
    /\ exit_code = -1

(* sys.exit(code) *)
Exit(code) == pc' = "done" /\ exit_code' = code

(* An exception nothing catches: the interpreter prints a traceback to      *)
(* standard error and exits with code 1.                                    *)
Crash(e) ==
    /\ stderr' = Append(stderr, [traceback |-> e.type])
    /\ Exit(1)

(* The usage error of argparse: a message on standard error, exit code 2. *)
UsageError ==
    /\ stderr' = Append(stderr, [usage |-> "error"])
    /\ Exit(2)

----------------------------------------------------------------------------
(* scripts/align.py *)

(* faulty variant: the audio check always passes *)
AudioPathExists_Unchecked == TRUE

AudioPathExists == audio_exists

(* faulty variant: the text check always passes *)
TextPathExists_Unchecked == TRUE

TextPathExists == text_kind # "missing"

ResolveDevice(requested, cuda_available) ==
    IF requested = "auto"
      THEN (IF cuda_available THEN "cuda" ELSE "cpu")
      ELSE requested

(* faulty variant: the requested compute type is kept on every device *)
ResolveComputeType_Kept(dev, requested) == requested

ResolveComputeType(dev, requested) ==
    IF dev = "cpu" /\ requested = "float16" THEN "int8" ELSE requested

(* faulty variant: the sample count taken for milliseconds *)
MakeSegments_Millis(text, n) == << [text |-> text, start |-> 0, end |-> [num |-> n, den |-> 1000]] >>

MakeSegments(text, n) == << [text |-> text, start |-> 0, end |-> Seconds(n)] >>

(* faulty variant: the confidence copied with a default instead of only when present *)
AlignWord_AlwaysScored(word_data) ==
    [word |-> Get(word_data, "word", ""),
     start |-> Round3(Get(word_data, "start", 0)),
     end |-> Round3(Get(word_data, "end", 0)),
     confidence |-> Round3(Get(word_data, "score", 0))]

AlignWord(word_data) ==
    LET word == [word |-> Get(word_data, "word", ""),
                 start |-> Round3(Get(word_data, "start", 0)),
                 end |-> Round3(Get(word_data, "end", 0))]
    IN  IF "score" \in DOMAIN word_data
          THEN word @@ [confidence |-> Round3(word_data.score)]
          ELSE word

(* the inner loop: words.append(word) for each word_data of the segment *)
RECURSIVE AlignAppendAll(_, _)
AlignAppendAll(acc, word_list) ==
    IF word_list = <<>> THEN acc
    ELSE AlignAppendAll(Append(acc, AlignWord(Head(word_list))), Tail(word_list))

(* the outer loop over the segments *)
RECURSIVE AlignLoop(_, _)
AlignLoop(acc, segs) ==
    IF segs = <<>> THEN acc
    ELSE AlignLoop(AlignAppendAll(acc, Get(Head(segs), "words", <<>>)), Tail(segs))

AlignExtract(res) == AlignLoop(<<>>, Get(res, "segments", <<>>))

(* faulty variant: only the words that carry a confidence are counted *)
AlignOutput_CountsScored(language, n, word_list) ==
    [success |-> TRUE,
     language |-> language,
     duration |-> Duration(n),
     word_count |-> Cardinality({ i \in DOMAIN word_list : "confidence" \in DOMAIN word_list[i] }),
     words |-> word_list]

AlignOutput(language, n, word_list) ==
    [success |-> TRUE,
     language |-> language,
     duration |-> Duration(n),
     word_count |-> Len(word_list),
     words |-> word_list]

(* print(json.dumps({'error': ...}), file=sys.stderr); sys.exit(1) *)
AlignFail(message) ==
    /\ stderr' = Append(stderr, [error |-> message])
    /\ Exit(1)

(* except Exception as e: the error and the exception's class name *)
AlignCaught(e) ==
    /\ stderr' = Append(stderr, [error |-> e.msg, type |-> e.type])
    /\ Exit(1)

AlignParseArgs ==
    /\ tool = "align" /\ pc = "parse"
    /\ IF argv_ok
         THEN pc' = "check_audio" /\ UNCHANGED <<stderr, exit_code>>
         ELSE UsageError
    /\ UNCHANGED <<tool, argv_ok, args, audio_exists, text_kind, file_text, transcript,
                   device, compute_type, audio, result, words, calls, stdout>>

AlignCheckAudio ==
    /\ tool = "align" /\ pc = "check_audio"
    /\ IF ~AudioPathExists
         THEN AlignFail("Audio file not found")
         ELSE pc' = "check_text" /\ UNCHANGED <<stderr, exit_code>>
    /\ UNCHANGED <<tool, argv_ok, args, audio_exists, text_kind, file_text, transcript,
                   device, compute_type, audio, result, words, calls, stdout>>

AlignCheckText ==
    /\ tool = "align" /\ pc = "check_text"
    /\ IF ~TextPathExists
         THEN AlignFail("Text file not found")
         ELSE pc' = "read" /\ UNCHANGED <<stderr, exit_code>>
    /\ UNCHANGED <<tool, argv_ok, args, audio_exists, text_kind, file_text, transcript,
                   device, compute_type, audio, result, words, calls, stdout>>

(* open() and read() stand outside every try: a path that exists and cannot *)
(* be read as UTF-8 text (a directory, no permission) ends in a traceback.  *)
AlignReadTranscript ==
    /\ tool = "align" /\ pc = "read"
    /\ IF text_kind = "file"
         THEN /\ transcript' = Strip(file_text)
              /\ pc' = "check_empty"
              /\ UNCHANGED <<stderr, exit_code>>
         ELSE /\ Crash([type |-> "OSError", msg |-> "cannot read"])
              /\ UNCHANGED transcript
    /\ UNCHANGED <<tool, argv_ok, args, audio_exists, text_kind, file_text,
                   device, compute_type, audio, result, words, calls, stdout>>

AlignCheckEmpty ==
    /\ tool = "align" /\ pc = "check_empty"
    /\ IF transcript = <<>>
         THEN AlignFail("Transcript is empty")
         ELSE pc' = "import" /\ UNCHANGED <<stderr, exit_code>>
    /\ UNCHANGED <<tool, argv_ok, args, audio_exists, text_kind, file_text, transcript,
                   device, compute_type, audio, result, words, calls, stdout>>

(* import whisperx, torch: only ImportError is caught *)
AlignImport ==
    /\ tool = "align" /\ pc = "import"
    /\ \/ /\ calls' = Append(calls, [fn |-> "import", ok |-> TRUE])
          /\ pc' = "device"
          /\ UNCHANGED <<stderr, exit_code>>
       \/ \E e \in Excs :
            /\ calls' = Append(calls, [fn |-> "import", ok |-> FALSE])
            /\ IF e.type = "ImportError"
                 THEN AlignFail("Missing dependency")
                 ELSE Crash(e)
    /\ UNCHANGED <<tool, argv_ok, args, audio_exists, text_kind, file_text, transcript,
                   device, compute_type, audio, result, words, stdout>>

(* Determine device, adjust compute type: torch.cuda.is_available() is      *)
(* called for "auto" only, and outside every try.                           *)
AlignResolve ==
    /\ tool = "align" /\ pc = "device"
    /\ \/ /\ args.device # "auto"
          /\ device' = ResolveDevice(args.device, FALSE)
          /\ compute_type' = ResolveComputeType(device', args.compute_type)
          /\ pc' = "load_model"
          /\ UNCHANGED <<calls, stderr, exit_code>>
       \/ /\ args.device = "auto"
          /\ \E cuda_available \in BOOLEAN :
               /\ device' = ResolveDevice(args.device, cuda_available)
               /\ calls' = Append(calls, [fn |-> "torch.cuda.is_available", ok |-> TRUE,
                                          returned |-> cuda_available])
          /\ compute_type' = ResolveComputeType(device', args.compute_type)
          /\ pc' = "load_model"
          /\ UNCHANGED <<stderr, exit_code>>
       \/ /\ args.device = "auto"
          /\ \E e \in Excs : Crash(e)
          /\ calls' = Append(calls, [fn |-> "torch.cuda.is_available", ok |-> FALSE])
          /\ UNCHANGED <<device, compute_type>>
    /\ UNCHANGED <<tool, argv_ok, args, audio_exists, text_kind, file_text, transcript,
                   audio, result, words, stdout>>

LoadAlignModelCall(ok) ==
    [fn |-> "whisperx.load_align_model", ok |-> ok,
     language_code |-> args.language, device |-> device]

AlignLoadModel ==
    /\ tool = "align" /\ pc = "load_model"
    /\ \/ /\ calls' = Append(calls, LoadAlignModelCall(TRUE))
          /\ pc' = "load_audio"
          /\ UNCHANGED <<stderr, exit_code>>
       \/ \E e \in Excs :
            /\ calls' = Append(calls, LoadAlignModelCall(FALSE))
            /\ AlignCaught(e)
    /\ UNCHANGED <<tool, argv_ok, args, audio_exists, text_kind, file_text, transcript,
                   device, compute_type, audio, result, words, stdout>>

AlignLoadAudio ==
    /\ tool = "align" /\ pc = "load_audio"
    /\ \/ \E n \in AudioLens :
            /\ audio' = n
            /\ calls' = Append(calls, [fn |-> "whisperx.load_audio", ok |-> TRUE])
            /\ pc' = "align"
            /\ UNCHANGED <<stderr, exit_code>>
       \/ \E e \in Excs :
            /\ calls' = Append(calls, [fn |-> "whisperx.load_audio", ok |-> FALSE])
            /\ AlignCaught(e)
            /\ UNCHANGED audio
    /\ UNCHANGED <<tool, argv_ok, args, audio_exists, text_kind, file_text, transcript,
                   device, compute_type, result, words, stdout>>

AlignCall(ok) ==
    [fn |-> "whisperx.align", ok |-> ok,
     segments |-> MakeSegments(transcript, audio), device |-> device]

AlignAlign ==
    /\ tool = "align" /\ pc = "align"
    /\ \/ \E r \in ResultsOver(AlignSrcWords) :
            /\ result' = r
            /\ calls' = Append(calls, AlignCall(TRUE))
            /\ pc' = "emit"
            /\ UNCHANGED <<stderr, exit_code>>
       \/ \E e \in Excs :
            /\ calls' = Append(calls, AlignCall(FALSE))
            /\ AlignCaught(e)
            /\ UNCHANGED result
    /\ UNCHANGED <<tool, argv_ok, args, audio_exists, text_kind, file_text, transcript,
                   device, compute_type, audio, words, stdout>>

(* Extract word-level data, print the result; main() returns: exit code 0.  *)
(* The library's results are taken to be well typed (numbers where round()  *)
(* and json.dumps() expect them), so neither raises here.                   *)
AlignEmit ==
    /\ tool = "align" /\ pc = "emit"
    /\ words' = AlignExtract(result)
    /\ stdout' = Append(stdout, AlignOutput(args.language, audio, words'))
    /\ Exit(0)
    /\ UNCHANGED <<tool, argv_ok, args, audio_exists, text_kind, file_text, transcript,
                   device, compute_type, audio, result, calls, stderr>>

AlignNext ==
    \/ AlignParseArgs
    \/ AlignCheckAudio
    \/ AlignCheckText
    \/ AlignReadTranscript
    \/ AlignCheckEmpty
    \/ AlignImport
    \/ AlignResolve
    \/ AlignLoadModel
    \/ AlignLoadAudio
    \/ AlignAlign
    \/ AlignEmit

----------------------------------------------------------------------------
(* scripts/whisper_transcribe.py *)

TranscribeWord(word_info) ==
    [word |-> Get(word_info, "word", ""),
     start |-> Get(word_info, "start", 0),
     end |-> Get(word_info, "end", 0),
     probability |-> Get(word_info, "probability", PyNone)]

(* the inner loop: words.append({...}) for each word_info of the segment *)
RECURSIVE TranscribeAppendAll(_, _)
TranscribeAppendAll(acc, word_list) ==
    IF word_list = <<>> THEN acc
    ELSE TranscribeAppendAll(Append(acc, TranscribeWord(Head(word_list))), Tail(word_list))

(* the outer loop over the segments *)
RECURSIVE TranscribeLoop(_, _)
TranscribeLoop(acc, segs) ==
    IF segs = <<>> THEN acc
    ELSE TranscribeLoop(TranscribeAppendAll(acc, Get(Head(segs), "words", <<>>)), Tail(segs))

(* faulty variant: the segments walked from the last to the first *)
RECURSIVE TranscribeLoopBackwards(_, _)
TranscribeLoopBackwards(acc, segs) ==
    IF segs = <<>> THEN acc
    ELSE TranscribeLoopBackwards(
             TranscribeAppendAll(acc, Get(segs[Len(segs)], "words", <<>>)),
             SubSeq(segs, 1, Len(segs) - 1))

TranscribeExtract_Backwards(res) == TranscribeLoopBackwards(<<>>, Get(res, "segments", <<>>))

TranscribeExtract(res) == TranscribeLoop(<<>>, Get(res, "segments", <<>>))

TranscribeOutput(res, language, word_list) ==
    [text |-> Get(res, "text", ""),
     language |-> Get(res, "language", language),
     duration |-> Get(res, "duration", PyNone),
     segments |-> Get(res, "segments", <<>>),
     words |-> word_list]

(* print(json.dumps({"error": ...})); sys.exit(1): on standard output *)
TranscribeFail(message) ==
    /\ stdout' = Append(stdout, [error |-> message])
    /\ Exit(1)

(* except Exception as e *)
TranscribeCaught(e) == TranscribeFail(e.msg)

TranscribeParseArgs ==
    /\ tool = "transcribe" /\ pc = "parse"
    /\ IF argv_ok
         THEN pc' = "import" /\ UNCHANGED <<stderr, exit_code>>
         ELSE UsageError
    /\ UNCHANGED <<tool, argv_ok, args, audio_exists, text_kind, file_text, transcript,
                   device, compute_type, audio, result, words, calls, stdout>>

(* import whisper: only ImportError is caught *)
TranscribeImport ==
    /\ tool = "transcribe" /\ pc = "import"
    /\ \/ /\ calls' = Append(calls, [fn |-> "import", ok |-> TRUE])
          /\ pc' = "load_model"
          /\ UNCHANGED <<stdout, stderr, exit_code>>
       \/ \E e \in Excs :
            /\ calls' = Append(calls, [fn |-> "import", ok |-> FALSE])
            /\ IF e.type = "ImportError"
                 THEN TranscribeFail("openai-whisper not installed") /\ UNCHANGED stderr
                 ELSE Crash(e) /\ UNCHANGED stdout
    /\ UNCHANGED <<tool, argv_ok, args, audio_exists, text_kind, file_text, transcript,
                   device, compute_type, audio, result, words>>

LoadModelCall(ok) ==
    [fn |-> "whisper.load_model", ok |-> ok, name |-> args.model, device |-> args.device]

TranscribeLoadModel ==
    /\ tool = "transcribe" /\ pc = "load_model"
    /\ \/ /\ calls' = Append(calls, LoadModelCall(TRUE))
          /\ pc' = "transcribe"
          /\ UNCHANGED <<stdout, exit_code>>
       \/ \E e \in Excs :
            /\ calls' = Append(calls, LoadModelCall(FALSE))
            /\ TranscribeCaught(e)
    /\ UNCHANGED <<tool, argv_ok, args, audio_exists, text_kind, file_text, transcript,
                   device, compute_type, audio, result, words, stderr>>

TranscribeCall(ok) ==
    [fn |-> "model.transcribe", ok |-> ok, language |-> args.language]

(* model.transcribe(args.audio, ...): whisper decodes the file itself, so   *)
(* the call returns a result only for an audio path that exists.            *)
TranscribeTranscribe ==
    /\ tool = "transcribe" /\ pc = "transcribe"
    /\ \/ /\ audio_exists
          /\ \E r \in ResultsOver(WhisperSrcWords) : result' = r
          /\ calls' = Append(calls, TranscribeCall(TRUE))
          /\ pc' = "emit"
          /\ UNCHANGED <<stdout, exit_code>>
       \/ \E e \in Excs :
            /\ calls' = Append(calls, TranscribeCall(FALSE))
            /\ TranscribeCaught(e)
            /\ UNCHANGED result
    /\ UNCHANGED <<tool, argv_ok, args, audio_exists, text_kind, file_text, transcript,
                   device, compute_type, audio, words, stderr>>

(* Extract word-level data, print the output; main() returns: exit code 0 *)
TranscribeEmit ==
    /\ tool = "transcribe" /\ pc = "emit"
    /\ words' = TranscribeExtract(result)
    /\ stdout' = Append(stdout, TranscribeOutput(result, args.language, words'))
    /\ Exit(0)
    /\ UNCHANGED <<tool, argv_ok, args, audio_exists, text_kind, file_text, transcript,
                   device, compute_type, audio, result, calls, stderr>>

TranscribeNext ==
    \/ TranscribeParseArgs
    \/ TranscribeImport
    \/ TranscribeLoadModel
    \/ TranscribeTranscribe
    \/ TranscribeEmit

Next == AlignNext \/ TranscribeNext

Spec == Init /\ [][Next]_vars

----------------------------------------------------------------------------
(* Vocabulary of the properties *)

Done == pc = "done"

IsError(p) == "error" \in DOMAIN p

(* the success object of either script carries the word list *)
IsSuccess(p) == "words" \in DOMAIN p

IsTraceback(p) == "traceback" \in DOMAIN p

Emitted == stdout \o stderr

Count(seq, P(_)) == Cardinality({ i \in DOMAIN seq : P(seq[i]) })

Attempted(fn) == \E i \in DOMAIN calls : calls[i].fn = fn

Failed(fn) == \E i \in DOMAIN calls : calls[i].fn = fn /\ ~calls[i].ok

ModelCalls == { "whisper.load_model", "model.transcribe",
                "whisperx.load_align_model", "whisperx.align" }

AllWhitespace(s) == \A i \in DOMAIN s : s[i] \in Whitespace

(* the text between the first and the last character that is no whitespace *)
Trimmed(s) ==
    LET keep == { i \in DOMAIN s : s[i] \notin Whitespace }
    IN  IF keep = {} THEN <<>>
        ELSE SubSeq(s, CHOOSE i \in keep : \A j \in keep : i <= j,
                       CHOOSE i \in keep : \A j \in keep : i >= j)

(* the library's word records, segment after segment *)
RECURSIVE SourceWords(_)
SourceWords(segs) ==
    IF segs = <<>> THEN <<>>
    ELSE (IF "words" \in DOMAIN Head(segs) THEN Head(segs).words ELSE <<>>)
         \o SourceWords(Tail(segs))

ResultSegments == IF "segments" \in DOMAIN result THEN result.segments ELSE <<>>

AlignSucceeded == tool = "align" /\ Done /\ exit_code = 0

TranscribeSucceeded == tool = "transcribe" /\ Done /\ exit_code = 0

----------------------------------------------------------------------------
(* C1: every invocation whose command line parses ends having emitted       *)
(* exactly one result payload over standard output and standard error, a    *)
(* success object or an error object; the exit code is 0 exactly when the   *)
(* success object was emitted, and 1 when the error object was.             *)
C1_ExactlyOnePayload ==
    (Done /\ argv_ok) =>
        /\ Count(Emitted, IsError) + Count(Emitted, IsSuccess) = 1
        /\ (exit_code = 0 <=> Count(Emitted, IsSuccess) = 1)
        /\ (Count(Emitted, IsError) = 1 => exit_code = 1)

(* C2: in the alignment tool, with an audio path that does not exist, no    *)
(* import, load_align_model, load_audio or align is ever attempted, the run *)
(* never gets past the audio check, and it ends with exit code 1 and one    *)
(* JSON object with an error key on standard error.                         *)
C2_MissingAudioFailsFast ==
    (tool = "align" /\ argv_ok /\ ~audio_exists) =>
        /\ pc \in {"parse", "check_audio", "done"}
        /\ ~Attempted("import")
        /\ ~Attempted("whisperx.load_align_model")
        /\ ~Attempted("whisperx.load_audio")
        /\ ~Attempted("whisperx.align")
        /\ Done => /\ exit_code = 1
                   /\ Len(stderr) = 1 /\ IsError(stderr[1])
                   /\ stdout = <<>>

C2_Witness ==
    /\ tool = "align" /\ argv_ok /\ ~audio_exists /\ text_kind = "file"
    /\ Done /\ exit_code = 1
    /\ stderr = << [error |-> "Audio file not found"] >>

(* C3: in the alignment tool, with an audio file that exists and a text     *)
(* file that holds nothing but whitespace, load_align_model and align are   *)
(* never invoked and the run ends with exit code 1 and one JSON object with *)
(* an error key on standard error.                                          *)
C3_EmptyTranscriptFails ==
    (tool = "align" /\ argv_ok /\ audio_exists /\ text_kind = "file"
        /\ AllWhitespace(file_text)) =>
        /\ ~Attempted("whisperx.load_align_model")
        /\ ~Attempted("whisperx.align")
        /\ pc \notin {"load_model", "load_audio", "align", "emit"}
        /\ Done => /\ exit_code = 1
                   /\ Len(stderr) = 1 /\ IsError(stderr[1])
                   /\ stdout = <<>>

C3_Witness ==
    /\ tool = "align" /\ audio_exists /\ text_kind = "file"
    /\ file_text # <<>> /\ AllWhitespace(file_text)
    /\ Done /\ exit_code = 1
    /\ stderr = << [error |-> "Transcript is empty"] >>

(* C5: an exception raised by a call into a library is caught: the run      *)
(* ends with exit code 1 and one error payload, never with a traceback.     *)
C5_LibraryExceptionsCaught ==
    (\E i \in DOMAIN calls : ~calls[i].ok) =>
        /\ Done /\ exit_code = 1
        /\ Count(Emitted, IsTraceback) = 0
        /\ Count(Emitted, IsError) = 1

CpuResolved ==
    \/ args.device = "cpu"
    \/ /\ args.device = "auto"
       /\ \E i \in DOMAIN calls :
            calls[i].fn = "torch.cuda.is_available" /\ calls[i].ok /\ ~calls[i].returned

DeviceResolved == pc = "load_model" \/ Attempted("whisperx.load_align_model")

C6_ValidationBeforeModel ==
    (argv_ok /\ (~audio_exists \/ (tool = "align" /\ text_kind = "missing"))) =>
        \A i \in DOMAIN calls : calls[i].fn \notin ModelCalls

(* C6: in the alignment tool, with a missing audio path or a missing text   *)
(* path no call into a library is made and the run ends with exit code 1    *)
(* and one JSON error object on standard error; the transcription tool      *)
(* checks no path, and when its load_model or transcribe call fails the run *)
(* ends with exit code 1 and one JSON error object on standard output.      *)
C6_AlignValidatesTranscribeDoesNot ==
    /\ (tool = "align" /\ argv_ok /\ (~audio_exists \/ text_kind = "missing")) =>
          /\ calls = <<>>
          /\ pc \in {"parse", "check_audio", "check_text", "done"}
          /\ Done => /\ exit_code = 1
                     /\ Len(stderr) = 1 /\ IsError(stderr[1])
                     /\ stdout = <<>>
    /\ (tool = "transcribe" /\ (Failed("whisper.load_model") \/ Failed("model.transcribe"))) =>
          /\ Done /\ exit_code = 1
          /\ Len(stdout) = 1 /\ IsError(stdout[1])
          /\ stderr = <<>>

C6_Witness ==
    /\ tool = "align" /\ argv_ok /\ audio_exists /\ text_kind = "missing"
    /\ Done /\ exit_code = 1
    /\ stderr = << [error |-> "Text file not found"] >>

(* the transcription tool reaches the model with an audio path that is missing *)
C6_TranscribeWitness ==
    /\ tool = "transcribe" /\ ~audio_exists
    /\ Failed("model.transcribe")
    /\ stdout = << [error |-> "failed"] >>

(* C7: in a successful run of the transcription tool the emitted words are  *)
(* the library's word records, segment after segment and word after word:   *)
(* as many, and the k-th emitted record has the word, start and end of the  *)
(* k-th source record.                                                      *)
C7_WordsInSegmentOrder ==
    TranscribeSucceeded =>
        LET src == SourceWords(ResultSegments)
            out == stdout[1].words
        IN  /\ Len(stdout) = 1
            /\ Len(out) = Len(src)
            /\ \A k \in 1..Len(src) :
                 /\ out[k].word = src[k].word
                 /\ out[k].start = src[k].start
                 /\ out[k].end = src[k].end

C7_Witness ==
    /\ TranscribeSucceeded
    /\ Len(ResultSegments) = 2
    /\ "words" \notin DOMAIN ResultSegments[1]
    /\ "words" \in DOMAIN ResultSegments[2]
    /\ Len(stdout[1].words) = 2
    /\ stdout[1].words[1].word = "b" /\ stdout[1].words[2].word = "a"

(* C8: in the success payload of the alignment tool word_count is the       *)
(* number of entries of words, which is the number of word records over all *)
(* segments the alignment returned.                                         *)
C8_WordCount ==
    AlignSucceeded =>
        /\ Len(stdout) = 1 /\ IsSuccess(stdout[1])
        /\ stdout[1].word_count = Len(stdout[1].words)
        /\ Len(stdout[1].words) = Len(SourceWords(ResultSegments))

C8_Witness ==
    /\ AlignSucceeded
    /\ Len(ResultSegments) = 2
    /\ stdout[1].word_count = 3
    /\ \E k \in 1..3 : "confidence" \notin DOMAIN stdout[1].words[k]

(* C9 as claimed: in both tools an emitted word record carries a            *)
(* confidence or probability key exactly when its source record carries a   *)
(* score or probability key.                                                *)
C9_ScoreOnlyWhenPresent ==
    (Done /\ exit_code = 0) =>
        LET src == SourceWords(ResultSegments)
            out == stdout[1].words
        IN  \A k \in 1..Len(out) :
              ("confidence" \in DOMAIN out[k] \/ "probability" \in DOMAIN out[k])
                 <=> ("score" \in DOMAIN src[k] \/ "probability" \in DOMAIN src[k])

(* C9: the alignment tool emits a confidence key exactly for the source     *)
(* records that carry a score; the transcription tool emits a probability   *)
(* key in every word record, holding the source's probability when there is *)
(* one and None otherwise.                                                  *)
C9_ScoreCopied ==
    (Done /\ exit_code = 0) =>
        LET src == SourceWords(ResultSegments)
            out == stdout[1].words
        IN  /\ Len(out) = Len(src)
            /\ \A k \in 1..Len(out) :
                 IF tool = "align"
                   THEN /\ "confidence" \in DOMAIN out[k] <=> "score" \in DOMAIN src[k]
                        /\ "probability" \notin DOMAIN out[k]
                   ELSE /\ "probability" \in DOMAIN out[k]
                        /\ "probability" \in DOMAIN src[k] => out[k].probability = src[k].probability
                        /\ "probability" \notin DOMAIN src[k] => out[k].probability = PyNone

C9_Witness ==
    /\ AlignSucceeded
    /\ Len(stdout[1].words) = 2
    /\ "confidence" \in DOMAIN stdout[1].words[1]
    /\ "confidence" \notin DOMAIN stdout[1].words[2]

C9_TranscribeWitness ==
    /\ TranscribeSucceeded
    /\ \E k \in DOMAIN stdout[1].words : stdout[1].words[k].probability = PyNone

(* C10: in the alignment tool whisperx.align is called at most once; when   *)
(* it is called, validation has passed, the two calls before it are a       *)
(* load_align_model and a load_audio that returned, in that order, and it   *)
(* is given one segment: the trimmed text of the file, from 0 to the sample *)
(* count over 16000.  The success payload is emitted only once the call has *)
(* returned.                                                                *)
C10_OneAlignCall ==
    tool = "align" =>
        /\ Cardinality({ i \in DOMAIN calls : calls[i].fn = "whisperx.align" }) <= 1
        /\ \A i \in DOMAIN calls : calls[i].fn = "whisperx.align" =>
              /\ audio_exists /\ text_kind = "file" /\ ~AllWhitespace(file_text)
              /\ i >= 3
              /\ calls[i - 2].fn = "whisperx.load_align_model" /\ calls[i - 2].ok
              /\ calls[i - 1].fn = "whisperx.load_audio" /\ calls[i - 1].ok
              /\ audio \in AudioLens
              /\ calls[i].segments
                   = << [text |-> Trimmed(file_text), start |-> 0,
                         end |-> [num |-> audio, den |-> 16000]] >>
        /\ (\E k \in DOMAIN stdout : IsSuccess(stdout[k])) =>
              /\ calls # <<>>
              /\ calls[Len(calls)].fn = "whisperx.align" /\ calls[Len(calls)].ok

C10_Witness ==
    /\ AlignSucceeded
    /\ file_text = <<" ", "a", " ", "b", "\n">>
    /\ audio = 40011
    /\ calls[Len(calls)].segments
         = << [text |-> <<"a", " ", "b">>, start |-> 0, end |-> [num |-> 40011, den |-> 16000]] >>
====
